---- MODULE Spec2Model ----
(***************************************************************************)
(* The three contribution dashboards of the repository as one state        *)
(* machine.  Each of them is a Streamlit script that is executed top to    *)
(* bottom on every user interaction ("page render"):                      *)
(*   "budjet"      src/reporting_budjet.py          (no store, load_data)  *)
(*   "contributor" src/app_contributor_reporting.py (SQLite via SQLAlchemy)*)
(*   "s3"          src/app_monadama_s3.py           (SQLite + S3 mirror)   *)
(* One action of the model is one user interaction together with the      *)
(* whole script run it triggers.                                           *)
(*                                                                         *)
(* A table cell is a record [k, v]: k = "num" a number (or a parsed date,  *)
(* v its ordinal), k = "na" a missing value (NaN / NaT / NULL), k = "str"  *)
(* a text (a phone, a non-numeric amount, a date text that was not         *)
(* parsed; v = 0 is a text that no parser accepts).                        *)
(***************************************************************************)
EXTENDS Integers, Sequences, FiniteSets, TLC

\* Bounds of the model.
MaxAmount == 1
MaxDate == 2
MaxRows == 1
MaxStore == 2

\* reporting_budjet.py: the two preset periods, in days.
Preset7 == 7
Preset30 == 30

VARIABLES
    variant,        \* which of the three scripts the process runs
    uploaded_file,  \* the file_uploader widget's value (session state)
    local,          \* the file contributions.db: [exists, rows]
    remote,         \* the S3 object contributions.db: [exists, rows]
    conn,           \* init_db's cached handle: "none" | "open" | "closed"
    out             \* what the last script run showed

vars == <<variant, uploaded_file, local, remote, conn, out>>

----------------------------------------------------------------------------
\* Cells.

NA == [k |-> "na", v |-> 0]
Num(n) == [k |-> "num", v |-> n]
Txt(n) == [k |-> "str", v |-> n]

IsNum(c) == c.k = "num"

\* Python / pandas comparisons: a comparison with NaN, NaT or NULL is False.
Ge(c, x) == IsNum(c) /\ c.v >= x
Le(c, x) == IsNum(c) /\ c.v <= x
Gt(c, x) == IsNum(c) /\ c.v > x

Min(S) == CHOOSE x \in S : \A y \in S : x <= y
Max(S) == CHOOSE x \in S : \A y \in S : x >= y

Range(s) == {s[i] : i \in 1..Len(s)}

----------------------------------------------------------------------------
\* Uploaded files.

Columns == {"telephone", "montant", "date_virement"}

DateValues == 1..MaxDate
Phones == {Txt(1)}
AmountCells == {Num(a) : a \in (0 - 1)..MaxAmount} \cup {NA, Txt(0)}
DateCells == {Num(d) : d \in DateValues} \cup {NA, Txt(0)}

\* The rows of the uploaded files: a valid row, and the rows that differ from it
\* in the amount or in the date.
BaseRow == [telephone |-> Txt(1), montant |-> Num(1), date_virement |-> Num(1)]
RawRows ==
    {[BaseRow EXCEPT !.montant = c] : c \in AmountCells}
        \cup {[BaseRow EXCEPT !.date_virement = c] : c \in DateCells}

\* A column the file does not have holds nothing.
Blank(cols, r) ==
    [telephone |-> IF "telephone" \in cols THEN r.telephone ELSE NA,
     montant |-> IF "montant" \in cols THEN r.montant ELSE NA,
     date_virement |-> IF "date_virement" \in cols THEN r.date_virement ELSE NA]

RowSeqs == UNION {[1..n -> RawRows] : n \in 1..MaxRows}

\* The files with the three columns, and the files of valid rows that lack one.
Files ==
    {[name |-> "data.csv", cols |-> Columns, rows |-> rs] : rs \in RowSeqs}
        \cup {[name |-> "data.csv", cols |-> Columns \ {c},
               rows |-> [i \in 1..n |-> Blank(Columns \ {c}, BaseRow)]] :
                 c \in Columns, n \in 1..MaxRows}

NoFile == [name |-> "", cols |-> {}, rows |-> <<>>]

\* No file contributions.db, no object in the bucket.
Absent == [exists |-> FALSE, rows |-> <<>>]

----------------------------------------------------------------------------
\* Messages shown to the user (accents dropped).

MsgFormSaved == "Transaction enregistree!"
MsgImported == "transactions importees!"
MsgImportError == "Erreur d'import"
MsgLoadError == "Erreur de chargement"
MsgNeedFile == "Veuillez importer un fichier CSV/Excel pour commencer"
MsgNoDataInDb == "Aucune donnee dans la base de donnees"
MsgNoMatch == "Aucune transaction trouvee avec les filtres actuels"
MsgRestored == "Base de donnees restauree depuis S3"
MsgNewDb == "Creation d'une nouvelle base de donnees"
MsgBackupOk == "Backup reussi!"
MsgBackupError == "Erreur"

\* What a script run shows and did.
\*   status    "none" (no run yet), "done", "stopped" (st.stop()), "crashed"
\*             (an exception nobody caught)
\*   crash     what raised it: "closed_conn", "frame", "widgets", "sync"
\*   sidebar   the uploader (and the form, the buttons) were displayed
\*   upload    "none", "ok", "error": how the ingestion of the selected file ended
\*   accepted  the rows of the file (by position) that the ingestion accepted
\*   reported  the N of "N transactions importees!" (-1: not shown)
\*   sync_failures  where a transfer with S3 failed: "init", "upload", "button",
\*             "periodic"
\*   restored  this run is the rerun "Restaurer depuis S3" asked for
\*   reached   the run got to the filters, df is the frame it loaded
\*   bounded   the filter widgets returned bounds
\*   kpi       the metrics (total, count) were displayed
OutNone ==
    [status |-> "none", crash |-> "", sidebar |-> FALSE, msgs |-> {},
     upload |-> "none", accepted |-> {}, reported |-> 0 - 1,
     sync_failures |-> {}, restored |-> FALSE,
     reached |-> FALSE, df |-> <<>>,
     bounded |-> FALSE, date_range |-> <<0, 0>>, min_amount |-> 0, max_amount |-> 0,
     filtered |-> <<>>, kpi |-> FALSE, count |-> 0, total |-> 0]

----------------------------------------------------------------------------
\* The table contributions.

NextId(rows) == IF rows = <<>> THEN 1 ELSE rows[Len(rows)].id + 1

\* DataFrame.to_sql(..., if_exists='append', index=False): one INSERT per row of
\* the frame, naming the frame's columns; the others are NULL, id is assigned.
to_sql(rows, frame) ==
    rows \o [i \in 1..Len(frame) |->
                [id |-> NextId(rows) + i - 1,
                 telephone |-> frame[i].telephone,
                 montant |-> frame[i].montant,
                 date_virement |-> frame[i].date_virement]]

\* df['date_virement'] = pd.to_datetime(df['date_virement']).dt.date raises
\* KeyError without the column and a parse error on a text that is no date;
\* an empty cell becomes NaT.
to_datetime_raises(f) ==
    \/ "date_virement" \notin f.cols
    \/ \E i \in 1..Len(f.rows) : f.rows[i].date_virement.k = "str"

----------------------------------------------------------------------------
\* reporting_budjet.py: load_data.

RECURSIVE SortDesc(_)
\* sort_values('date_virement', ascending=False); the order of equal dates is
\* the one of the frame.
SortDesc(s) ==
    IF s = <<>> THEN <<>>
    ELSE LET m == Max({s[i].date_virement.v : i \in 1..Len(s)})
             first == CHOOSE i \in 1..Len(s) :
                         /\ s[i].date_virement.v = m
                         /\ \A j \in 1..(i - 1) : s[j].date_virement.v # m
             rest == [j \in 1..(Len(s) - 1) |-> IF j < first THEN s[j] ELSE s[j + 1]]
         IN <<s[first]>> \o SortDesc(rest)

\* read_csv(parse_dates=['date_virement']): a column with a text that is not a
\* date is returned unaltered, as texts; empty cells stay missing.
parse_dates(rows) ==
    IF \E i \in 1..Len(rows) : rows[i].date_virement.k = "str"
    THEN [i \in 1..Len(rows) |->
             [rows[i] EXCEPT !.date_virement =
                 IF @.k = "num" THEN Txt(@.v) ELSE @]]
    ELSE rows

\* pd.to_numeric(errors='coerce')
to_numeric(c) == IF c.k = "str" THEN NA ELSE c

\* The frame load_data returns; the frame's index is kept as id.
\* [ok |-> FALSE]: the exception path (st.error, return None).
load_data(f) ==
    IF "date_virement" \notin f.cols \/ ~(Columns \subseteq f.cols)
    THEN [ok |-> FALSE, df |-> <<>>]
    ELSE LET read == parse_dates([i \in 1..Len(f.rows) |->
                        [id |-> i, telephone |-> f.rows[i].telephone,
                         montant |-> f.rows[i].montant,
                         date_virement |-> f.rows[i].date_virement]])
             notna(r) == r.date_virement.k # "na" /\ r.montant.k # "na"
             dropped == SelectSeq(read, notna)
             coerced == [i \in 1..Len(dropped) |->
                            [dropped[i] EXCEPT !.montant = to_numeric(@)]]
             positive(r) == Gt(r.montant, 0)
         IN [ok |-> TRUE, df |-> SortDesc(SelectSeq(coerced, positive))]

----------------------------------------------------------------------------
\* Filters and KPI, the part the three scripts share.

Dates(df) == {df[i].date_virement.v : i \in {j \in 1..Len(df) : IsNum(df[j].date_virement)}}
Amounts(df) == {df[i].montant.v : i \in {j \in 1..Len(df) : IsNum(df[j].montant)}}

\* The mutant of filtered_df: the upper amount bound taken as exclusive.
filtered_df_exclusive(df, date_range, min_amount, max_amount) ==
    LET mask(r) ==
            /\ Ge(r.date_virement, date_range[1])
            /\ Le(r.date_virement, date_range[2])
            /\ Ge(r.montant, min_amount)
            /\ IsNum(r.montant) /\ r.montant.v < max_amount
    IN SelectSeq(df, mask)

\* df[(date >= date_range[0]) & (date <= date_range[1]) &
\*    (montant >= min_amount) & (montant <= max_amount)]
filtered_df(df, date_range, min_amount, max_amount) ==
    LET mask(r) ==
            /\ Ge(r.date_virement, date_range[1])
            /\ Le(r.date_virement, date_range[2])
            /\ Ge(r.montant, min_amount)
            /\ Le(r.montant, max_amount)
    IN SelectSeq(df, mask)

RECURSIVE Sum(_)
\* filtered_df['montant'].sum(): NaN is skipped, the sum of nothing is 0.
Sum(s) ==
    IF s = <<>> THEN 0
    ELSE (IF IsNum(Head(s).montant) THEN Head(s).montant.v ELSE 0) + Sum(Tail(s))

----------------------------------------------------------------------------
\* The filter widgets and what follows them.

Presets == {"Personnalisee", "7 derniers jours", "30 derniers jours"}

Pairs(S) == {p \in S \X S : p[1] <= p[2]}

\* A frame the widgets cannot take their bounds from: df.min() is NaT or NaN.
NoBounds(df) == Dates(df) = {} \/ Amounts(df) = {}

\* A frame whose min()/max()/.date() raise: a text among the amounts, or a date
\* column that was left as texts.
BadFrame(df) ==
    \E i \in 1..Len(df) : df[i].montant.k = "str" \/ df[i].date_virement.k = "str"

\* What the filter widgets return in a run of `script` over the frame df: their
\* defaults (the whole range) in the first run of a session (fresh), else any
\* value the user can have given them.
\* raises: whether st.date_input and st.slider raise on the NaT and NaN bounds
\* of a frame without a date or an amount (the source does not decide it; both
\* outcomes are kept).
WidgetChoices(script, df, fresh) ==
    IF BadFrame(df) \/ NoBounds(df)
    THEN [raises : BOOLEAN, preset : {"Personnalisee"}, dr : {<<0, 0>>}, amt : {<<0, 0>>}]
    ELSE IF fresh
    THEN [raises : {FALSE}, preset : {"Personnalisee"},
          dr : {<<Min(Dates(df)), Max(Dates(df))>>},
          amt : {<<Min(Amounts(df)), Max(Amounts(df))>>}]
    ELSE [raises : {FALSE},
          preset : IF script = "budjet" THEN Presets ELSE {"Personnalisee"},
          dr : IF script = "contributor"
               THEN Pairs(DateValues)
               ELSE Pairs(Min(Dates(df))..Max(Dates(df))),
          amt : Pairs(Min(Amounts(df))..Max(Amounts(df)))]

\* The script from the filter widgets to the last display; o is what the run
\* has shown so far, o.df the frame.
View(script, o, w) ==
    LET df == o.df
        shown(f) ==
            [o EXCEPT !.status = "done",
                      !.filtered = f,
                      !.kpi = script # "contributor",
                      !.count = IF script # "contributor" THEN Len(f) ELSE 0,
                      !.total = IF script # "contributor" THEN Sum(f) ELSE 0,
                      !.msgs = IF script = "budjet" /\ Len(f) = 0
                               THEN @ \cup {MsgNoMatch} ELSE @]
    IN
    IF script = "contributor" /\ Len(df) = 0
    THEN [o EXCEPT !.status = "done", !.msgs = @ \cup {MsgNoDataInDb}]
    ELSE IF BadFrame(df) THEN [o EXCEPT !.status = "crashed", !.crash = "frame"]
    ELSE IF NoBounds(df)
    THEN IF w.raises THEN [o EXCEPT !.status = "crashed", !.crash = "widgets"]
         ELSE shown(<<>>)
    ELSE LET max_date == Max(Dates(df))
             date_range ==
                 IF w.preset = "7 derniers jours" THEN <<max_date - Preset7, max_date>>
                 ELSE IF w.preset = "30 derniers jours" THEN <<max_date - Preset30, max_date>>
                 ELSE w.dr
             f == filtered_df(df, date_range, w.amt[1], w.amt[2])
         IN [shown(f) EXCEPT !.bounded = TRUE,
                             !.date_range = date_range,
                             !.min_amount = w.amt[1],
                             !.max_amount = w.amt[2]]

----------------------------------------------------------------------------
\* The scripts up to the filter widgets.  A result is [local, remote, conn, out].

\* reporting_budjet.py
PreBudjet(l, r, c, file) ==
    LET ld == load_data(file)
        o == [OutNone EXCEPT !.sidebar = TRUE]
        stop(x) == [local |-> l, remote |-> r, conn |-> c,
                    out |-> [x EXCEPT !.status = "stopped"]]
    IN IF file = NoFile THEN stop([o EXCEPT !.msgs = {MsgNeedFile}])
       ELSE IF ~ld.ok
       THEN stop([o EXCEPT !.msgs = {MsgLoadError, MsgNeedFile}, !.upload = "error"])
       ELSE [local |-> l, remote |-> r, conn |-> c,
             out |-> [o EXCEPT !.upload = "ok",
                               !.accepted = {ld.df[i].id : i \in 1..Len(ld.df)},
                               !.reached = TRUE, !.df = ld.df]]

\* The upload block of the two scripts with a store, on the state m of the run:
\* m.local.rows after it and what it showed.
Import(m, file) ==
    IF file = NoFile THEN m
    ELSE IF to_datetime_raises(file)
    THEN [m EXCEPT !.out.msgs = @ \cup {MsgImportError}, !.out.upload = "error"]
    ELSE [m EXCEPT !.local.rows = to_sql(@, file.rows),
                   !.out.msgs = @ \cup {MsgImported},
                   !.out.upload = "ok",
                   !.out.accepted = 1..Len(file.rows),
                   !.out.reported = Len(file.rows)]

\* session.add(Contribution(...)); session.commit()
session_add(rows, form) == to_sql(rows, form)

\* pd.read_sql / pd.read_sql_table: the frame is the table.
read_sql(m) == [m EXCEPT !.out.reached = TRUE, !.out.df = m.local.rows]

\* app_contributor_reporting.py; form is <<>> or <<row>>, the submitted form.
PreContributor(l, r, c, file, form) ==
    read_sql(Import(
        [local |-> [exists |-> TRUE, rows |-> session_add(l.rows, form)],
         remote |-> r, conn |-> c,
         out |-> [OutNone EXCEPT !.sidebar = TRUE,
                                 !.msgs = IF Len(form) > 0 THEN {MsgFormSaved} ELSE {}]],
        file))

\* init_db under st.cache_resource: the body runs once per process.
init_db(l, r, c, s3ok) ==
    IF c # "none" THEN [local |-> l, remote |-> r, conn |-> c, out |-> OutNone]
    ELSE IF s3ok /\ r.exists
    THEN [local |-> r, remote |-> r, conn |-> "open",
          out |-> [OutNone EXCEPT !.msgs = {MsgRestored}]]
    ELSE [local |-> l, remote |-> r, conn |-> "open",
          out |-> [OutNone EXCEPT !.msgs = {MsgNewDb},
                                  !.sync_failures = IF s3ok THEN {} ELSE {"init"}]]

\* backup_to_s3(); caught says where the caller's except shows the failure.
backup_to_s3(m, s3ok, at, caught) ==
    IF s3ok THEN [m EXCEPT !.remote = m.local]
    ELSE [m EXCEPT !.out.sync_failures = @ \cup {at}, !.out.msgs = @ \cup {caught}]

\* The upload block of app_monadama_s3.py: the import, then the backup in the
\* same try.
S3Upload(m, file, s3ok) ==
    IF m.out.upload = "ok" THEN backup_to_s3(m, s3ok, "upload", MsgImportError) ELSE m

\* CREATE TABLE IF NOT EXISTS ...; conn.commit()
create_table(m) == [m EXCEPT !.local.exists = TRUE, !.out.sidebar = TRUE]

RECURSIVE PreS3(_, _, _, _, _, _)
\* The buttons of app_monadama_s3.py, on the state m after the upload block.
S3Buttons(m, file, button, s3ok) ==
    IF button = "backup"
    THEN IF s3ok
         THEN [backup_to_s3(m, s3ok, "button", MsgBackupError)
                  EXCEPT !.out.msgs = @ \cup {MsgBackupOk}]
         ELSE backup_to_s3(m, s3ok, "button", MsgBackupError)
    ELSE IF button = "restore"
    THEN \* conn.close(); os.remove('contributions.db'); init_db();
         \* st.experimental_rerun(): the script runs again
         [PreS3(Absent, m.remote, init_db(Absent, m.remote, "closed", s3ok).conn,
                file, "none", s3ok)
             EXCEPT !.out.restored = TRUE]
    ELSE m

\* df = pd.read_sql(...), unless st.experimental_rerun() has ended the run: m is
\* then the state of the rerun.
S3Load(m) == IF m.out.restored THEN m ELSE read_sql(m)

\* The script after conn = init_db(), m its result.
S3Sidebar(m, file, button, s3ok) ==
    IF m.conn = "closed"
    THEN \* conn.execute on a closed connection raises
         [m EXCEPT !.out.status = "crashed", !.out.crash = "closed_conn"]
    ELSE S3Load(S3Buttons(S3Upload(Import(create_table(m), file), file, s3ok),
                          file, button, s3ok))

\* app_monadama_s3.py up to the filters; button is "none", "backup" or "restore".
PreS3(l, r, c, file, button, s3ok) ==
    S3Sidebar(init_db(l, r, c, s3ok), file, button, s3ok)

\* app_monadama_s3.py after the displays: the periodic backup and conn.close();
\* m is the state when the displays are done, m.out what they showed.
PostS3(m, s3ok, tick) ==
    IF m.out.status = "crashed" THEN m
    ELSE IF tick /\ ~s3ok
    THEN [m EXCEPT !.out.status = "crashed", !.out.crash = "sync",
                   !.out.sync_failures = @ \cup {"periodic"}]
    ELSE [m EXCEPT !.remote = IF tick THEN m.local ELSE @, !.conn = "closed"]

\* The script `script` up to the filters.
Pre(script, l, r, c, file, button, form, s3ok) ==
    IF script = "budjet" THEN PreBudjet(l, r, c, file)
    ELSE IF script = "contributor" THEN PreContributor(l, r, c, file, form)
    ELSE PreS3(l, r, c, file, button, s3ok)

\* The script from the filters to its end, the widgets giving w.
Post(script, m, w, s3ok, tick) ==
    IF ~m.out.reached THEN m
    ELSE IF script = "s3" THEN PostS3([m EXCEPT !.out = View(script, @, w)], s3ok, tick)
    ELSE [m EXCEPT !.out = View(script, @, w)]

----------------------------------------------------------------------------
\* The state machine.

Scripts == {"budjet", "contributor", "s3"}

\* A database file left by an earlier process, or an earlier backup.
Row0 == [id |-> 1, telephone |-> Txt(1), montant |-> Num(1), date_virement |-> Num(1)]
Stored0 == [exists |-> TRUE, rows |-> <<Row0>>]

\* The process starts: nothing is cached, no page is shown.  The scripts with a
\* store may find a database file, the bucket may hold a backup.
Init ==
    /\ variant \in Scripts
    /\ uploaded_file = NoFile
    /\ conn = "none"
    /\ out = OutNone
    /\ \/ variant # "budjet" /\ local = Stored0
       \/ local = Absent
    /\ \/ variant = "s3" /\ remote = Stored0
       \/ remote = Absent

\* The rows of the manual form: number_input(min_value=0.0), date_input.
FormRows ==
    [telephone : Phones, montant : {Num(a) : a \in 0..MaxAmount},
     date_virement : {Num(d) : d \in DateValues}]

\* One script run: the widgets hold file, button and form, the filters are at
\* their defaults (fresh) or not; S3 answers or not (s3ok); the clock's minute is
\* a multiple of 30 or not (tick).
Run(file, button, form, fresh) ==
    \E s3ok \in (IF variant = "s3" THEN BOOLEAN ELSE {TRUE}),
       tick \in (IF variant = "s3" THEN BOOLEAN ELSE {FALSE}) :
        \E m \in {Pre(variant, local, remote, conn, file, button, form, s3ok)} :
            \E w \in WidgetChoices(variant, m.out.df, fresh) :
                \E fin \in {Post(variant, m, w, s3ok, tick)} :
                    /\ m.out.reached \/ (~w.raises /\ ~tick)
                    /\ Len(fin.local.rows) <= MaxStore
                    /\ uploaded_file' = file
                    /\ local' = fin.local
                    /\ remote' = fin.remote
                    /\ conn' = fin.conn
                    /\ out' = fin.out
                    /\ UNCHANGED variant

\* The page is opened (or reloaded) in a browser: a new session, every widget
\* at its default.
Reload ==
    /\ uploaded_file' = NoFile
    /\ Run(NoFile, "none", <<>>, TRUE)

\* Any interaction that only reruns the script: a filter or a preset is
\* changed, "Rerun" is chosen.
Rerun ==
    /\ out.status # "none"
    /\ Run(uploaded_file, "none", <<>>, FALSE)

\* A file is put into the uploader.
SelectFile ==
    /\ out.sidebar
    /\ \E f \in Files : f # uploaded_file /\ Run(f, "none", <<>>, FALSE)

\* "Enregistrer" of the manual form.
SubmitForm ==
    /\ out.sidebar /\ variant = "contributor"
    /\ \E r \in FormRows : Run(uploaded_file, "none", <<r>>, FALSE)

\* "Sauvegarder vers S3"
BackupButton ==
    /\ out.sidebar /\ variant = "s3"
    /\ Run(uploaded_file, "backup", <<>>, FALSE)

\* "Restaurer depuis S3"
RestoreButton ==
    /\ out.sidebar /\ variant = "s3"
    /\ Run(uploaded_file, "restore", <<>>, FALSE)

Next ==
    \/ Reload
    \/ Rerun
    \/ SelectFile
    \/ SubmitForm
    \/ BackupButton
    \/ RestoreButton

Spec == Init /\ [][Next]_vars

----------------------------------------------------------------------------
\* The claims.

\* A row of a file that the Ingestion Validator is to accept.
RowValid(r) == IsNum(r.montant) /\ r.montant.v > 0 /\ IsNum(r.date_virement)

LacksColumn(f) == f # NoFile /\ ~(Columns \subseteq f.cols)

\* C1: whenever the filters were applied with bounds, a record of the loaded
\* frame is in the filtered frame if and only if its date lies in
\* [date_range[0], date_range[1]] and its amount in [min_amount, max_amount],
\* both ends included, and the filtered frame holds no other record.
C1_FilterContract ==
    out.bounded =>
        /\ \A i \in 1..Len(out.df) :
              (out.df[i] \in Range(out.filtered)) <=>
                  /\ out.df[i].date_virement.k = "num"
                  /\ out.date_range[1] <= out.df[i].date_virement.v
                  /\ out.df[i].date_virement.v <= out.date_range[2]
                  /\ out.df[i].montant.k = "num"
                  /\ out.min_amount <= out.df[i].montant.v
                  /\ out.df[i].montant.v <= out.max_amount
        /\ Range(out.filtered) \subseteq Range(out.df)

\* C1 witness: a run filtered a frame of two records with bounds that keep one,
\* whose amount and date lie on the upper bounds, and drop the other.
C1_Witness ==
    /\ out.bounded
    /\ Len(out.df) >= 2
    /\ Len(out.filtered) = 1
    /\ out.filtered[1].montant.v = out.max_amount
    /\ out.filtered[1].date_virement.v = out.date_range[2]
    /\ \E i \in 1..Len(out.df) :
          /\ out.df[i] \notin Range(out.filtered)
          /\ out.df[i].montant.k = "num"
          /\ out.df[i].date_virement.k = "num"

\* C2: when a file with the three columns was ingested, the accepted rows are
\* exactly the rows with a date and an amount > 0, and the count shown is their
\* number.
C2_IngestionExcludesInvalidRows ==
    (out.upload # "none" /\ Columns \subseteq uploaded_file.cols) =>
        /\ out.accepted = {i \in 1..Len(uploaded_file.rows) : RowValid(uploaded_file.rows[i])}
        /\ out.reported >= 0 => out.reported = Cardinality(out.accepted)

\* C3: the upload of a file that lacks a required column ends in an error shown
\* to the user and leaves the persisted records as they were.
C3_SchemaErrorLeavesStore ==
    [][(uploaded_file' # uploaded_file /\ LacksColumn(uploaded_file') /\ out'.upload # "none") =>
          /\ out'.upload = "error"
          /\ out'.msgs \cap {MsgImportError, MsgLoadError} # {}
          /\ local'.rows = local.rows]_vars

\* C4: every persisted record has an amount > 0.
C4_StoredAmountsPositive ==
    \A i \in 1..Len(local.rows) :
        local.rows[i].montant.k = "num" /\ local.rows[i].montant.v > 0

\* C5: no action removes or changes a persisted record.
C5_AppendOnly ==
    [][\A i \in 1..Len(local.rows) :
          i <= Len(local'.rows) /\ local'.rows[i] = local.rows[i]]_vars

\* C6: a run in which a transfer with S3 failed is not ended by that failure,
\* and shows it as a message.
C6_SyncFailureCaught ==
    out.sync_failures # {} =>
        /\ out.crash # "sync"
        /\ out.msgs \cap {MsgNewDb, MsgImportError, MsgBackupError} # {}

\* C7: the run that follows "Restaurer depuis S3", a remote snapshot existing,
\* loads exactly the records of the snapshot, which is the local file again.
C7_RestoreLoadsSnapshot ==
    (out.restored /\ remote.exists) =>
        /\ out.reached
        /\ out.df = remote.rows
        /\ local = remote

\* C8: in every run the store handle is open: no run ends on a closed
\* connection.
C8_HandleUsable == out.crash # "closed_conn"

\* C9: a run whose frame has no record that passes the filters (the empty frame
\* included) ends normally, shows count 0 and total 0, and warns "no data".
C9_EmptyResultWarned ==
    (out.reached /\ Len(out.filtered) = 0) =>
        /\ out.status = "done"
        /\ out.kpi => (out.count = 0 /\ out.total = 0)
        /\ out.msgs \cap {MsgNoMatch, MsgNoDataInDb} # {}

\* C10: a run with the same file still selected adds none of its rows again:
\* the store grows by the form's record at most.
C10_FileImportedOnce ==
    [][(uploaded_file # NoFile /\ uploaded_file' = uploaded_file) =>
          Len(local'.rows) <= Len(local.rows) + (IF MsgFormSaved \in out'.msgs THEN 1 ELSE 0)]_vars

====
